---- MODULE Spec2Model ----
(***************************************************************************)
(* nat-updater-aws-connector: the NATS handler eventHandler (main.go), the *)
(* reconciliation updateNat with its EC2 calls, and the Event type with    *)
(* Validate / Process / Error / Complete (event.go, kept in event_test.go) *)
(***************************************************************************)
EXTENDS Naturals, Sequences, FiniteSets, TLC

\* ------------------------------------------------------------------ bounds

\* How often the transport hands the same message to a handler
\* (at-least-once delivery: the first delivery and its redeliveries).
MaxDeliveries == 2

\* Route tables the provider lets exist; CreateRouteTable fails beyond it.
MaxTables == 3

\* ------------------------------------------------------------ Go values

\* A nil error.
NoError == "<nil>"

\* A nil *string of the EC2 SDK.
NilPtr == "<nil pointer>"

\* A Go string holding a byte sequence that is not well-formed UTF-8, and
\* the string holding the replacement character U+FFFD.
BadUtf8 == "<byte ff>"
ReplChar == "<U+FFFD>"

\* A []string: nil, or a (possibly empty) list.
NilSlice == [isNil |-> TRUE, elems |-> <<>>]
Slice(q) == [isNil |-> FALSE, elems |-> q]

ErrDatacenterIDInvalid == "Datacenter VPC ID invalid"
ErrDatacenterRegionInvalid == "Datacenter Region invalid"
ErrDatacenterCredentialsInvalid == "Datacenter credentials invalid"
ErrNetworkIDInvalid == "Network id invalid"
ErrRoutedNetworksEmpty == "Routed networks are empty"

\* The struct fields of Event in declaration order, and their json tags.
EventFields ==
  << "UUID", "BatchID", "ProviderType", "VPCID", "DatacenterRegion",
     "DatacenterAccessKey", "DatacenterAccessToken", "PublicNetwork",
     "PublicNetworkAWSID", "RoutedNetworks", "RoutedNetworkAWSIDs",
     "NatGatewayAWSID", "NatGatewayAllocationID", "NatGatewayAllocationIP",
     "InternetGatewayID", "ErrorMessage" >>

JsonTag ==
  [ UUID |-> "_uuid", BatchID |-> "_batch_id", ProviderType |-> "_type",
    VPCID |-> "vpc_id", DatacenterRegion |-> "datacenter_region",
    DatacenterAccessKey |-> "datacenter_access_key",
    DatacenterAccessToken |-> "datacenter_access_token",
    PublicNetwork |-> "public_network",
    PublicNetworkAWSID |-> "public_network_aws_id",
    RoutedNetworks |-> "routed_networks",
    RoutedNetworkAWSIDs |-> "routed_networks_aws_ids",
    NatGatewayAWSID |-> "nat_gateway_aws_id",
    NatGatewayAllocationID |-> "nat_gateway_allocation_id",
    NatGatewayAllocationIP |-> "nat_gateway_allocation_ip",
    InternetGatewayID |-> "internet_gateway_id",
    ErrorMessage |-> "error" ]

\* The fields of type []string; the others are strings.
SliceFields == {"RoutedNetworks", "RoutedNetworkAWSIDs"}

\* The tags with no omitempty on `error`.
OmitEmptyNone == {}

\* The field tagged omitempty.
OmitEmptyFields == {"ErrorMessage"}

\* `var n Event`: the zero value.
ZeroEvent ==
  [ f \in {EventFields[i] : i \in 1..Len(EventFields)} |->
      IF f \in SliceFields THEN NilSlice ELSE "" ]

\* --------------------------------------------------------- encoding/json

\* JSON text is modelled by its structure: a document is syntactically
\* invalid, the literal null, or an object with an ordered list of members;
\* a member value is a string literal, an array of string literals, null,
\* or a number.
JStr(lit) == [t |-> "str", s |-> lit, a |-> <<>>]
JArr(lits) == [t |-> "arr", s |-> "", a |-> lits]
JNull == [t |-> "null", s |-> "", a |-> <<>>]
JNum == [t |-> "num", s |-> "", a |-> <<>>]

InvalidDoc == [kind |-> "invalid", members |-> <<>>]
NullDoc == [kind |-> "null", members |-> <<>>]
ObjectDoc(ms) == [kind |-> "object", members |-> ms]
\* What Publish sends for a nil []byte.
EmptyPayload == [kind |-> "empty", members |-> <<>>]

\* The text json.Marshal writes between the quotes for a Go string: bytes
\* that are not UTF-8 are written as the six-character escape for U+FFFD,
\* a well-formed U+FFFD is written as it is.
EncodeString(s) == IF s = BadUtf8 THEN "\\ufffd" ELSE s

\* The Go string json.Unmarshal reads from a string literal: the escape
\* for U+FFFD and ill-formed bytes both become U+FFFD.
DecodeString(lit) == IF lit \in {"\\ufffd", BadUtf8} THEN ReplChar ELSE lit

EncodeValue(f, v) ==
  IF f \in SliceFields
    THEN IF v.isNil THEN JNull
         ELSE JArr([i \in 1..Len(v.elems) |-> EncodeString(v.elems[i])])
    ELSE JStr(EncodeString(v))

RECURSIVE MarshalFrom(_, _)
MarshalFrom(ev, i) ==
  IF i > Len(EventFields) THEN <<>>
  ELSE LET f == EventFields[i] IN
       IF f \in OmitEmptyFields /\ ev[f] = ""
         THEN MarshalFrom(ev, i + 1)
         ELSE << [k |-> JsonTag[f], v |-> EncodeValue(f, ev[f])] >>
                \o MarshalFrom(ev, i + 1)

\* json.Marshal(ev): every field under its tag, in declaration order,
\* `error` left out when empty.
Marshal(ev) == ObjectDoc(MarshalFrom(ev, 1))

\* DecodeMember with null decoded into a slice as an empty list, not nil.
DecodeMemberNullAsEmpty(ev, m) ==
  IF \A f \in DOMAIN JsonTag : JsonTag[f] # m.k
    THEN [ev |-> ev, bad |-> FALSE]
  ELSE LET f == CHOOSE g \in DOMAIN JsonTag : JsonTag[g] = m.k IN
    IF f \in SliceFields
      THEN CASE m.v.t = "arr" ->
                  [ev |-> [ev EXCEPT ![f] =
                       Slice([i \in 1..Len(m.v.a) |-> DecodeString(m.v.a[i])])],
                   bad |-> FALSE]
             [] m.v.t = "null" ->
                  [ev |-> [ev EXCEPT ![f] = Slice(<<>>)], bad |-> FALSE]
             [] OTHER -> [ev |-> ev, bad |-> TRUE]
      ELSE CASE m.v.t = "str" ->
                  [ev |-> [ev EXCEPT ![f] = DecodeString(m.v.s)], bad |-> FALSE]
             [] m.v.t = "null" -> [ev |-> ev, bad |-> FALSE]
             [] OTHER -> [ev |-> ev, bad |-> TRUE]

\* One object member decoded into the struct: an unknown key is ignored,
\* null leaves a string alone and makes a slice nil, a value of the wrong
\* type is skipped and reported.
DecodeMember(ev, m) ==
  IF \A f \in DOMAIN JsonTag : JsonTag[f] # m.k
    THEN [ev |-> ev, bad |-> FALSE]
  ELSE LET f == CHOOSE g \in DOMAIN JsonTag : JsonTag[g] = m.k IN
    IF f \in SliceFields
      THEN CASE m.v.t = "arr" ->
                  [ev |-> [ev EXCEPT ![f] =
                       Slice([i \in 1..Len(m.v.a) |-> DecodeString(m.v.a[i])])],
                   bad |-> FALSE]
             [] m.v.t = "null" ->
                  [ev |-> [ev EXCEPT ![f] = NilSlice], bad |-> FALSE]
             [] OTHER -> [ev |-> ev, bad |-> TRUE]
      ELSE CASE m.v.t = "str" ->
                  [ev |-> [ev EXCEPT ![f] = DecodeString(m.v.s)], bad |-> FALSE]
             [] m.v.t = "null" -> [ev |-> ev, bad |-> FALSE]
             [] OTHER -> [ev |-> ev, bad |-> TRUE]

RECURSIVE DecodeMembers(_, _, _, _)
DecodeMembers(ev, ms, i, bad) ==
  IF i > Len(ms) THEN [ev |-> ev, bad |-> bad]
  ELSE LET r == DecodeMember(ev, ms[i]) IN
       DecodeMembers(r.ev, ms, i + 1, bad \/ r.bad)

\* json.Unmarshal(data, &ev): a syntax error touches nothing; null touches
\* nothing and is no error; an object is decoded member by member, and a
\* member of the wrong type is skipped, the rest still decoded, and an
\* UnmarshalTypeError returned.
Unmarshal(data, ev) ==
  CASE data.kind = "object" ->
         LET r == DecodeMembers(ev, data.members, 1, FALSE) IN
         [ev |-> r.ev,
          err |-> IF r.bad THEN "json: cannot unmarshal number into Go value"
                  ELSE NoError]
    [] data.kind = "null" -> [ev |-> ev, err |-> NoError]
    [] OTHER -> [ev |-> ev, err |-> "invalid character looking for beginning of value"]

\* ------------------------------------------------------------- Event

\* Validate with the region checked ahead of the VPC ID.
ValidateRegionFirst(ev) ==
  IF ev.DatacenterRegion = "" THEN ErrDatacenterRegionInvalid
  ELSE IF ev.VPCID = "" THEN ErrDatacenterIDInvalid
  ELSE IF ev.DatacenterAccessKey = "" \/ ev.DatacenterAccessToken = ""
    THEN ErrDatacenterCredentialsInvalid
  ELSE IF ev.PublicNetworkAWSID = "" THEN ErrNetworkIDInvalid
  ELSE IF Len(ev.RoutedNetworkAWSIDs.elems) < 1 THEN ErrRoutedNetworksEmpty
  ELSE NoError

\* Validate with only the access key checked of the credentials.
ValidateKeyOnly(ev) ==
  IF ev.VPCID = "" THEN ErrDatacenterIDInvalid
  ELSE IF ev.DatacenterRegion = "" THEN ErrDatacenterRegionInvalid
  ELSE IF ev.DatacenterAccessKey = "" THEN ErrDatacenterCredentialsInvalid
  ELSE IF ev.PublicNetworkAWSID = "" THEN ErrNetworkIDInvalid
  ELSE IF Len(ev.RoutedNetworkAWSIDs.elems) < 1 THEN ErrRoutedNetworksEmpty
  ELSE NoError

\* Event.Validate: the first violated check, or nil.
Validate(ev) ==
  IF ev.VPCID = "" THEN ErrDatacenterIDInvalid
  ELSE IF ev.DatacenterRegion = "" THEN ErrDatacenterRegionInvalid
  ELSE IF ev.DatacenterAccessKey = "" \/ ev.DatacenterAccessToken = ""
    THEN ErrDatacenterCredentialsInvalid
  ELSE IF ev.PublicNetworkAWSID = "" THEN ErrNetworkIDInvalid
  ELSE IF Len(ev.RoutedNetworkAWSIDs.elems) < 1 THEN ErrRoutedNetworksEmpty
  ELSE NoError

DoneSubject == "nat.update.aws.done"
ErrorSubject == "nat.update.aws.error"

\* nc.Publish(subject, data)
Publish(subject, payload) == [subject |-> subject, data |-> payload]

\* ---------------------------------------------------------- the provider

DefaultCidr == "0.0.0.0/0"

Subnet1 == "subnet-00000001"
Subnet2 == "subnet-00000002"
Subnets == {Subnet1, Subnet2}

Route(dest, nat) == [DestinationCidrBlock |-> dest, NatGatewayId |-> nat]

\* The route every route table is created with: the VPC's own CIDR, whose
\* target is the local gateway, so its NatGatewayId is nil.
LocalRoute == Route("10.0.0.0/16", NilPtr)
\* A default route through an internet gateway: NatGatewayId is nil.
IgwDefaultRoute == Route(DefaultCidr, NilPtr)
\* A route to a prefix list (a VPC endpoint): DestinationCidrBlock is nil.
PrefixListRoute == Route(NilPtr, NilPtr)

\* rt == nil
NoTable == [id |-> 0, routes |-> <<>>]

\* The route lists of the route tables that exist before the first message.
InitialRoutes ==
  { <<LocalRoute>>,
    <<LocalRoute, Route(DefaultCidr, "nat-1")>>,
    <<LocalRoute, IgwDefaultRoute>>,
    <<LocalRoute, PrefixListRoute, Route(DefaultCidr, "nat-1")>> }

\* The provider before the first message: each subnet has no route table
\* or one of its own.
InitialProviders ==
  { [tables |-> <<>>, assoc |-> [s \in Subnets |-> 0]] }
  \cup
  { [tables |-> << [VpcId |-> "vpc-0000000", Routes |-> r] >>,
     assoc |-> [s \in Subnets |-> IF s = s1 THEN 1 ELSE 0]]
      : r \in InitialRoutes, s1 \in Subnets }
  \cup
  { [tables |-> << [VpcId |-> "vpc-0000000", Routes |-> r1],
                   [VpcId |-> "vpc-0000000", Routes |-> r2] >>,
     assoc |-> [s \in Subnets |-> IF s = Subnet1 THEN 1 ELSE 2]]
      : r1 \in InitialRoutes,
        r2 \in {<<LocalRoute>>, <<LocalRoute, Route(DefaultCidr, "nat-1")>>} }

\* The provider two processes start on: no table, a table for one subnet,
\* a table for each, or one table associated with both subnets.
ConcurrentProviders ==
  { [tables |-> <<>>, assoc |-> [s \in Subnets |-> 0]],
    [tables |-> << [VpcId |-> "vpc-0000000", Routes |-> <<LocalRoute>>] >>,
     assoc |-> [s \in Subnets |-> IF s = Subnet1 THEN 1 ELSE 0]],
    [tables |-> << [VpcId |-> "vpc-0000000", Routes |-> <<LocalRoute>>],
                   [VpcId |-> "vpc-0000000", Routes |-> <<LocalRoute>>] >>,
     assoc |-> [s \in Subnets |-> IF s = Subnet1 THEN 1 ELSE 2]],
    [tables |-> << [VpcId |-> "vpc-0000000", Routes |-> <<LocalRoute>>] >>,
     assoc |-> [s \in Subnets |-> 1]] }

\* The provider refuses a second route for a destination a table already
\* routes.
HasDestination(routes, dest) ==
  \E i \in 1..Len(routes) : routes[i].DestinationCidrBlock = dest

ErrRouteAlreadyExists == "CreateRoute: RouteAlreadyExists"

\* routeTableIsConfigured: the routes are scanned in order; dereferencing a
\* nil DestinationCidrBlock, or the nil NatGatewayId of a 0.0.0.0/0 route,
\* panics.
RECURSIVE routeTableIsConfiguredFrom(_, _, _)
routeTableIsConfiguredFrom(routes, gwID, i) ==
  IF i > Len(routes) THEN "false"
  ELSE IF routes[i].DestinationCidrBlock = NilPtr THEN "panic"
  ELSE IF routes[i].DestinationCidrBlock # DefaultCidr
    THEN routeTableIsConfiguredFrom(routes, gwID, i + 1)
  ELSE IF routes[i].NatGatewayId = NilPtr THEN "panic"
  ELSE IF routes[i].NatGatewayId = gwID THEN "true"
  ELSE routeTableIsConfiguredFrom(routes, gwID, i + 1)

\* routeTableIsConfigured returning false out of the loop's first round.
routeTableIsConfiguredFirstRoute(rtv, gwID) ==
  routeTableIsConfiguredFrom(SubSeq(rtv.routes, 1, 1), gwID, 1)

routeTableIsConfigured(rtv, gwID) ==
  routeTableIsConfiguredFrom(rtv.routes, gwID, 1)

\* ------------------------------------------------------ inbound messages

\* testEvent of the tests, with a NAT gateway to route through.
BaseEvent ==
  [ ZeroEvent EXCEPT
      !.UUID = "test", !.BatchID = "test", !.ProviderType = "aws",
      !.VPCID = "vpc-0000000", !.DatacenterRegion = "eu-west-1",
      !.DatacenterAccessKey = "key", !.DatacenterAccessToken = "token",
      !.PublicNetworkAWSID = "subnet-00000000",
      !.RoutedNetworkAWSIDs = Slice(<<Subnet1>>),
      !.NatGatewayAWSID = "nat-1" ]

\* Events that pass Validate.
ValidEvents ==
  { [BaseEvent EXCEPT !.RoutedNetworkAWSIDs = Slice(q), !.NatGatewayAWSID = g]
      : q \in {<<Subnet1>>, <<Subnet1, Subnet2>>, <<Subnet2, Subnet1>>},
        g \in {"nat-1", "nat-2"} }
  \cup
  { [BaseEvent EXCEPT !.UUID = ""],
    [BaseEvent EXCEPT !.BatchID = ""],
    [BaseEvent EXCEPT !.NatGatewayAWSID = ""],
    [BaseEvent EXCEPT !.UUID = BadUtf8],
    [BaseEvent EXCEPT !.UUID = ReplChar],
    [BaseEvent EXCEPT !.ErrorMessage = "stale"],
    [BaseEvent EXCEPT !.RoutedNetworks = Slice(<<"private">>)] }

\* Events with any of the fields Validate reads empty.
InvalidEvents ==
  { [BaseEvent EXCEPT
       !.VPCID = v, !.DatacenterRegion = r, !.DatacenterAccessKey = k,
       !.DatacenterAccessToken = t, !.PublicNetworkAWSID = p,
       !.RoutedNetworkAWSIDs = q]
      : v \in {"", "vpc-0000000"}, r \in {"", "eu-west-1"}, k \in {"", "key"},
        t \in {"", "token"}, p \in {"", "subnet-00000000"},
        q \in {NilSlice, Slice(<<>>), Slice(<<Subnet1>>)} }
  \ ValidEvents

\* The events a sender may serialize.
SenderEvents == ValidEvents \cup InvalidEvents

\* Payloads no json.Marshal of an Event produces: text that is not JSON,
\* null, an empty object, an object with a number where a string belongs
\* (and an `error` member), and a valid request with a member the struct
\* does not know ahead of the known ones.
ForeignDocs ==
  { InvalidDoc, NullDoc, ObjectDoc(<<>>),
    ObjectDoc(<< [k |-> "error", v |-> JStr("stale")],
                 [k |-> "vpc_id", v |-> JNum] >>),
    ObjectDoc(<< [k |-> "service", v |-> JStr("s")] >>
                \o Marshal(BaseEvent).members) }

InboundMessages == {Marshal(e) : e \in SenderEvents} \cup ForeignDocs

\* The requests in flight when two connector processes run side by side:
\* the valid request for one subnet, or for the other.
ConcurrentMessages ==
  { Marshal([BaseEvent EXCEPT !.RoutedNetworkAWSIDs = Slice(<<s>>)])
      : s \in Subnets }

\* ------------------------------------------------------------ the state

\* One handler per connector process subscribed to nat.update.aws.
Handlers == {"h1", "h2"}

VARIABLES
  active,      \* the processes that are running
  encoderFails,\* whether json.Marshal may return an error
  deliveries,  \* per handler: how often its message was delivered
  data,        \* per handler: m.Data of the message it handles
  pc,          \* per handler: where eventHandler stands
  n,           \* per handler: its Event
  err,         \* per handler: the error about to be reported
  idx,         \* per handler: position of updateNat's loop in the routed list
  rt,          \* per handler: the route table updateNat holds
  tables,      \* provider: the route tables, by id
  assoc,       \* provider: the route table id each subnet is associated with
  calls,       \* per handler: the provider calls of the current run
  pubs,        \* per handler: the messages published in the current run
  vres,        \* per handler: what Validate returned in the current run
  prev         \* per handler: the provider calls of the run before

vars == << active, encoderFails, deliveries, data, pc, n, err, idx, rt,
           tables, assoc, calls, pubs, vres, prev >>

NotCalled == "<not called>"

\* The state of the handlers before any message.
InitHandlers ==
  /\ deliveries = [h \in Handlers |-> 0]
  /\ data = [h \in Handlers |-> InvalidDoc]
  /\ pc = [h \in Handlers |-> "idle"]
  /\ n = [h \in Handlers |-> ZeroEvent]
  /\ err = [h \in Handlers |-> NoError]
  /\ idx = [h \in Handlers |-> 0]
  /\ rt = [h \in Handlers |-> NoTable]
  /\ calls = [h \in Handlers |-> <<>>]
  /\ pubs = [h \in Handlers |-> <<>>]
  /\ vres = [h \in Handlers |-> NotCalled]
  /\ prev = [h \in Handlers |-> <<>>]

InitProvider ==
  \E p \in InitialProviders : tables = p.tables /\ assoc = p.assoc

\* One connector process; json.Marshal of an Event (strings and string
\* lists only) cannot fail.
Init ==
  /\ active = {"h1"}
  /\ encoderFails = FALSE
  /\ InitHandlers
  /\ InitProvider

\* The same, with an encoder that may return an error.
InitEncoderFails ==
  /\ active = {"h1"}
  /\ encoderFails = TRUE
  /\ InitHandlers
  /\ InitProvider

\* Two connector processes on the same subject and provider account.
InitConcurrent ==
  /\ active = Handlers
  /\ encoderFails = FALSE
  /\ InitHandlers
  /\ \E p \in ConcurrentProviders : tables = p.tables /\ assoc = p.assoc

\* A crashed process handles nothing more.
Running(h) == h \in active /\ pc[h] # "crashed"

\* The loop of updateNat walking the routed list from its end.
networkIDReversed(h) ==
  n[h].RoutedNetworkAWSIDs.elems[
    Len(n[h].RoutedNetworkAWSIDs.elems) + 1 - idx[h]]

\* The subnet updateNat's loop stands at.
networkID(h) == n[h].RoutedNetworkAWSIDs.elems[idx[h]]

\* One provider call as recorded: the operation, the subnet and list
\* position it was made for, the route table it named or returned, the
\* routes of a table the lookup returned, and its error.
Call(h, op, table, routes, e) ==
  [op |-> op, subnet |-> networkID(h), pos |-> idx[h], table |-> table,
   routes |-> routes, err |-> e]

\* The error a provider call returns when it fails.
CallError(op) == op \o ": RequestError: send request failed"

\* ---------------------------------------------------------- eventHandler

\* The transport hands a message to the subscriber: eventHandler starts
\* with a zero Event.
Start(h, m) ==
  /\ deliveries' = [deliveries EXCEPT ![h] = @ + 1]
  /\ data' = [data EXCEPT ![h] = m]
  /\ n' = [n EXCEPT ![h] = ZeroEvent]
  /\ pc' = [pc EXCEPT ![h] = "Process"]
  /\ err' = [err EXCEPT ![h] = NoError]
  /\ idx' = [idx EXCEPT ![h] = 0]
  /\ rt' = [rt EXCEPT ![h] = NoTable]
  /\ prev' = [prev EXCEPT ![h] = calls[h]]
  /\ calls' = [calls EXCEPT ![h] = <<>>]
  /\ pubs' = [pubs EXCEPT ![h] = <<>>]
  /\ vres' = [vres EXCEPT ![h] = NotCalled]
  /\ UNCHANGED << active, encoderFails, tables, assoc >>

\* What the transport may deliver.
Inbox == IF active = Handlers THEN ConcurrentMessages ELSE InboundMessages

Deliver(h) ==
  /\ Running(h) /\ pc[h] = "idle" /\ deliveries[h] = 0
  /\ \E m \in Inbox : Start(h, m)

\* The deliveries made so far, to all processes.
RECURSIVE TotalDeliveries(_)
TotalDeliveries(H) ==
  IF H = {} THEN 0
  ELSE LET h == CHOOSE x \in H : TRUE
       IN deliveries[h] + TotalDeliveries(H \ {h})

\* At-least-once delivery: the same message again. Side by side, the
\* processes share the bound on repeated deliveries.
Redeliver(h) ==
  /\ Running(h) /\ pc[h] = "idle"
  /\ deliveries[h] > 0 /\ deliveries[h] < MaxDeliveries
  /\ TotalDeliveries(active) < MaxDeliveries + Cardinality(active) - 1
  /\ Start(h, data[h])

\* eventHandler going on to validation after a failed Process.
ProcessContinuesOnError(h) ==
  /\ Running(h) /\ pc[h] = "Process"
  /\ LET r == Unmarshal(data[h], n[h]) IN
       /\ n' = [n EXCEPT ![h] = r.ev]
       /\ pubs' = IF r.err # NoError
                    THEN [pubs EXCEPT ![h] =
                            Append(@, Publish(ErrorSubject, data[h]))]
                    ELSE pubs
       /\ pc' = [pc EXCEPT ![h] = "Validate"]
  /\ UNCHANGED << active, encoderFails, deliveries, data, err, idx, rt,
                  tables, assoc, calls, vres, prev >>

\* Process publishing the Event it decoded in place of the bytes it got.
ProcessPublishesDecoded(h) ==
  /\ Running(h) /\ pc[h] = "Process"
  /\ LET r == Unmarshal(data[h], n[h]) IN
       /\ n' = [n EXCEPT ![h] = r.ev]
       /\ IF r.err # NoError
            THEN /\ pubs' = [pubs EXCEPT ![h] =
                                Append(@, Publish(ErrorSubject, Marshal(r.ev)))]
                 /\ pc' = [pc EXCEPT ![h] = "idle"]
            ELSE /\ pubs' = pubs
                 /\ pc' = [pc EXCEPT ![h] = "Validate"]
  /\ UNCHANGED << active, encoderFails, deliveries, data, err, idx, rt,
                  tables, assoc, calls, vres, prev >>

\* Event.Process, and eventHandler's return when it fails.
Process(h) ==
  /\ Running(h) /\ pc[h] = "Process"
  /\ LET r == Unmarshal(data[h], n[h]) IN
       /\ n' = [n EXCEPT ![h] = r.ev]
       /\ IF r.err # NoError
            THEN /\ pubs' = [pubs EXCEPT ![h] =
                                Append(@, Publish(ErrorSubject, data[h]))]
                 /\ pc' = [pc EXCEPT ![h] = "idle"]
            ELSE /\ pubs' = pubs
                 /\ pc' = [pc EXCEPT ![h] = "Validate"]
  /\ UNCHANGED << active, encoderFails, deliveries, data, err, idx, rt,
                  tables, assoc, calls, vres, prev >>

\* updateNat with `return nil` inside the loop: done after one subnet.
LoopAtReturnsEarly(ev, i) ==
  IF i > 1 THEN "Complete" ELSE "DescribeRouteTables"

\* Where updateNat's loop goes with position i: the next subnet, or
\* `return nil` and eventHandler's n.Complete().
LoopAt(ev, i) ==
  IF i > Len(ev.RoutedNetworkAWSIDs.elems) THEN "Complete"
  ELSE "DescribeRouteTables"

\* Validate recording the violated check in the Event itself.
HandlerValidateSetsMessage(h) ==
  /\ Running(h) /\ pc[h] = "Validate"
  /\ LET e == Validate(n[h]) IN
       /\ vres' = [vres EXCEPT ![h] = e]
       /\ IF e # NoError
            THEN /\ err' = [err EXCEPT ![h] = e]
                 /\ n' = [n EXCEPT ![h].ErrorMessage = e]
                 /\ pc' = [pc EXCEPT ![h] = "Error"]
                 /\ idx' = idx
            ELSE /\ err' = err
                 /\ n' = n
                 /\ idx' = [idx EXCEPT ![h] = 1]
                 /\ pc' = [pc EXCEPT ![h] = LoopAt(n[h], 1)]
  /\ UNCHANGED << active, encoderFails, deliveries, data, rt, tables,
                  assoc, calls, pubs, prev >>

\* n.Validate() in eventHandler, and the entry into updateNat.
HandlerValidate(h) ==
  /\ Running(h) /\ pc[h] = "Validate"
  /\ LET e == Validate(n[h]) IN
       /\ vres' = [vres EXCEPT ![h] = e]
       /\ IF e # NoError
            THEN /\ err' = [err EXCEPT ![h] = e]
                 /\ pc' = [pc EXCEPT ![h] = "Error"]
                 /\ idx' = idx
            ELSE /\ err' = err
                 /\ idx' = [idx EXCEPT ![h] = 1]
                 /\ pc' = [pc EXCEPT ![h] = LoopAt(n[h], 1)]
  /\ UNCHANGED << active, encoderFails, deliveries, data, n, rt, tables,
                  assoc, calls, pubs, prev >>

\* -------------------------------------------------------------- updateNat

\* A provider call failed: createRouteTable / createNatGatewayRoutes return
\* the error, updateNat returns it, eventHandler goes on to n.Error(err).
ReturnErrorAs(h, op, table, e) ==
  /\ calls' = [calls EXCEPT ![h] = Append(@, Call(h, op, table, <<>>, e))]
  /\ err' = [err EXCEPT ![h] = e]
  /\ pc' = [pc EXCEPT ![h] = "Error"]

ReturnError(h, op, table) == ReturnErrorAs(h, op, table, CallError(op))

\* updateNat with the test of routeTableIsConfigured negated.
WithTableNegated(h, rtv) ==
  LET c == routeTableIsConfigured(rtv, n[h].NatGatewayAWSID) IN
    CASE c = "panic" ->
           /\ pc' = [pc EXCEPT ![h] = "crashed"]
           /\ idx' = idx
      [] c = "false" ->
           /\ idx' = [idx EXCEPT ![h] = @ + 1]
           /\ pc' = [pc EXCEPT ![h] = LoopAt(n[h], idx[h] + 1)]
      [] OTHER ->
           /\ pc' = [pc EXCEPT ![h] = "CreateRoute"]
           /\ idx' = idx

\* updateNat with route table rtv in hand: routeTableIsConfigured, then
\* `continue`, or on to createNatGatewayRoutes.
WithTable(h, rtv) ==
  LET c == routeTableIsConfigured(rtv, n[h].NatGatewayAWSID) IN
    CASE c = "panic" ->
           /\ pc' = [pc EXCEPT ![h] = "crashed"]
           /\ idx' = idx
      [] c = "true" ->
           /\ idx' = [idx EXCEPT ![h] = @ + 1]
           /\ pc' = [pc EXCEPT ![h] = LoopAt(n[h], idx[h] + 1)]
      [] OTHER ->
           /\ pc' = [pc EXCEPT ![h] = "CreateRoute"]
           /\ idx' = idx

\* routingTableBySubnetID without the association.subnet-id filter: the
\* first route table of the account.
DescribeRouteTablesUnfiltered(h) ==
  /\ Running(h) /\ pc[h] = "DescribeRouteTables"
  /\ \E ok \in BOOLEAN :
       IF ~ok
         THEN /\ ReturnError(h, "DescribeRouteTables", 0)
              /\ UNCHANGED << rt, idx >>
         ELSE LET t == IF Len(tables) > 0 THEN 1 ELSE 0
                  rtv == IF t = 0 THEN NoTable
                         ELSE [id |-> t, routes |-> tables[t].Routes]
              IN /\ calls' = [calls EXCEPT ![h] =
                     Append(@, Call(h, "DescribeRouteTables", t, rtv.routes,
                                    NoError))]
                 /\ rt' = [rt EXCEPT ![h] = rtv]
                 /\ err' = err
                 /\ IF t = 0
                      THEN /\ pc' = [pc EXCEPT ![h] = "CreateRouteTable"]
                           /\ idx' = idx
                      ELSE WithTable(h, rtv)
  /\ UNCHANGED << active, encoderFails, deliveries, data, n, tables, assoc,
                  pubs, vres, prev >>

\* routingTableBySubnetID, called first by createRouteTable: the route
\* table associated with the subnet, or nil.
DescribeRouteTables(h) ==
  /\ Running(h) /\ pc[h] = "DescribeRouteTables"
  /\ \E ok \in BOOLEAN :
       IF ~ok
         THEN /\ ReturnError(h, "DescribeRouteTables", 0)
              /\ UNCHANGED << rt, idx >>
         ELSE LET s == networkID(h)
                  t == IF s \in DOMAIN assoc THEN assoc[s] ELSE 0
                  rtv == IF t = 0 THEN NoTable
                         ELSE [id |-> t, routes |-> tables[t].Routes]
              IN /\ calls' = [calls EXCEPT ![h] =
                     Append(@, Call(h, "DescribeRouteTables", t, rtv.routes,
                                    NoError))]
                 /\ rt' = [rt EXCEPT ![h] = rtv]
                 /\ err' = err
                 /\ IF t = 0
                      THEN /\ pc' = [pc EXCEPT ![h] = "CreateRouteTable"]
                           /\ idx' = idx
                      ELSE WithTable(h, rtv)
  /\ UNCHANGED << active, encoderFails, deliveries, data, n, tables, assoc,
                  pubs, vres, prev >>

\* createRouteTable taking over a route table that is associated with no
\* subnet, when the newest one is, in place of creating one.
CreateRouteTableReusesOrphan(h) ==
  /\ Running(h) /\ pc[h] = "CreateRouteTable"
  /\ \E ok \in (IF Len(tables) < MaxTables THEN BOOLEAN ELSE {FALSE}) :
       IF ~ok
         THEN /\ ReturnError(h, "CreateRouteTable", 0)
              /\ UNCHANGED << rt, tables >>
         ELSE LET reuse == /\ Len(tables) > 0
                           /\ \A s \in DOMAIN assoc : assoc[s] # Len(tables)
                  t == IF reuse THEN Len(tables) ELSE Len(tables) + 1
              IN
              /\ tables' = IF reuse THEN tables
                           ELSE Append(tables, [VpcId |-> n[h].VPCID,
                                                Routes |-> <<LocalRoute>>])
              /\ rt' = [rt EXCEPT ![h] = [id |-> t, routes |-> <<LocalRoute>>]]
              /\ calls' = [calls EXCEPT ![h] =
                     Append(@, Call(h, "CreateRouteTable", t, <<>>, NoError))]
              /\ pc' = [pc EXCEPT ![h] = "AssociateRouteTable"]
              /\ err' = err
  /\ UNCHANGED << active, encoderFails, deliveries, data, n, idx, assoc,
                  pubs, vres, prev >>

\* svc.CreateRouteTable in createRouteTable.
CreateRouteTable(h) ==
  /\ Running(h) /\ pc[h] = "CreateRouteTable"
  /\ \E ok \in (IF Len(tables) < MaxTables THEN BOOLEAN ELSE {FALSE}) :
       IF ~ok
         THEN /\ ReturnError(h, "CreateRouteTable", 0)
              /\ UNCHANGED << rt, tables >>
         ELSE LET t == Len(tables) + 1 IN
              /\ tables' = Append(tables, [VpcId |-> n[h].VPCID,
                                           Routes |-> <<LocalRoute>>])
              /\ rt' = [rt EXCEPT ![h] = [id |-> t, routes |-> <<LocalRoute>>]]
              /\ calls' = [calls EXCEPT ![h] =
                     Append(@, Call(h, "CreateRouteTable", t, <<>>, NoError))]
              /\ pc' = [pc EXCEPT ![h] = "AssociateRouteTable"]
              /\ err' = err
  /\ UNCHANGED << active, encoderFails, deliveries, data, n, idx, assoc,
                  pubs, vres, prev >>

\* createRouteTable deleting the table it created when the association
\* fails.
AssociateRouteTableRollsBack(h) ==
  /\ Running(h) /\ pc[h] = "AssociateRouteTable"
  /\ \E ok \in (IF networkID(h) \in DOMAIN assoc THEN BOOLEAN ELSE {FALSE}) :
       IF ~ok
         THEN /\ ReturnError(h, "AssociateRouteTable", rt[h].id)
              /\ tables' = SubSeq(tables, 1, Len(tables) - 1)
              /\ UNCHANGED << idx, assoc >>
         ELSE /\ assoc' = [assoc EXCEPT ![networkID(h)] = rt[h].id]
              /\ calls' = [calls EXCEPT ![h] =
                     Append(@, Call(h, "AssociateRouteTable", rt[h].id, <<>>,
                                    NoError))]
              /\ err' = err
              /\ tables' = tables
              /\ WithTable(h, rt[h])
  /\ UNCHANGED << active, encoderFails, deliveries, data, n, rt,
                  pubs, vres, prev >>

\* svc.AssociateRouteTable in createRouteTable, and the return of the
\* created table to updateNat.
AssociateRouteTable(h) ==
  /\ Running(h) /\ pc[h] = "AssociateRouteTable"
  /\ \E ok \in (IF networkID(h) \in DOMAIN assoc THEN BOOLEAN ELSE {FALSE}) :
       IF ~ok
         THEN /\ ReturnError(h, "AssociateRouteTable", rt[h].id)
              /\ UNCHANGED << idx, assoc >>
         ELSE /\ assoc' = [assoc EXCEPT ![networkID(h)] = rt[h].id]
              /\ calls' = [calls EXCEPT ![h] =
                     Append(@, Call(h, "AssociateRouteTable", rt[h].id, <<>>,
                                    NoError))]
              /\ err' = err
              /\ WithTable(h, rt[h])
  /\ UNCHANGED << active, encoderFails, deliveries, data, n, rt, tables,
                  pubs, vres, prev >>

\* updateNat dropping the error of createNatGatewayRoutes: the loop goes on.
CreateRouteErrorDropped(h) ==
  /\ Running(h) /\ pc[h] = "CreateRoute"
  /\ \E ok \in BOOLEAN :
       /\ IF ~ok
            THEN /\ calls' = [calls EXCEPT ![h] =
                        Append(@, Call(h, "CreateRoute", rt[h].id, <<>>,
                                       CallError("CreateRoute")))]
                 /\ tables' = tables
            ELSE /\ tables' = [tables EXCEPT ![rt[h].id].Routes =
                        Append(@, Route(DefaultCidr, n[h].NatGatewayAWSID))]
                 /\ calls' = [calls EXCEPT ![h] =
                        Append(@, Call(h, "CreateRoute", rt[h].id, <<>>,
                                       NoError))]
       /\ err' = err
       /\ idx' = [idx EXCEPT ![h] = @ + 1]
       /\ pc' = [pc EXCEPT ![h] = LoopAt(n[h], idx[h] + 1)]
  /\ UNCHANGED << active, encoderFails, deliveries, data, n, rt, assoc,
                  pubs, vres, prev >>

\* createNatGatewayRoutes, and updateNat's step to the next subnet.
CreateRoute(h) ==
  /\ Running(h) /\ pc[h] = "CreateRoute"
  /\ \E ok \in BOOLEAN :
       IF HasDestination(tables[rt[h].id].Routes, DefaultCidr)
         THEN /\ ReturnErrorAs(h, "CreateRoute", rt[h].id,
                               ErrRouteAlreadyExists)
              /\ UNCHANGED << idx, tables >>
       ELSE IF ~ok
         THEN /\ ReturnError(h, "CreateRoute", rt[h].id)
              /\ UNCHANGED << idx, tables >>
         ELSE /\ tables' = [tables EXCEPT ![rt[h].id].Routes =
                     Append(@, Route(DefaultCidr, n[h].NatGatewayAWSID))]
              /\ calls' = [calls EXCEPT ![h] =
                     Append(@, Call(h, "CreateRoute", rt[h].id, <<>>, NoError))]
              /\ err' = err
              /\ idx' = [idx EXCEPT ![h] = @ + 1]
              /\ pc' = [pc EXCEPT ![h] = LoopAt(n[h], idx[h] + 1)]
  /\ UNCHANGED << active, encoderFails, deliveries, data, n, rt, assoc,
                  pubs, vres, prev >>

\* ------------------------------------------------------ terminal reports

\* What json.Marshal may do: succeed, or also fail.
MarshalSucceeds == IF encoderFails THEN BOOLEAN ELSE {TRUE}

MarshalError == "json: unsupported value"

\* Error serializing the Event before it records the message.
ErrorSerializesFirst(h) ==
  /\ Running(h) /\ pc[h] = "Error"
  /\ n' = [n EXCEPT ![h].ErrorMessage = err[h]]
  /\ \E ok \in MarshalSucceeds :
       IF ok
         THEN /\ pubs' = [pubs EXCEPT ![h] =
                   Append(@, Publish(ErrorSubject, Marshal(n[h])))]
              /\ pc' = [pc EXCEPT ![h] = "idle"]
         ELSE /\ pubs' = pubs
              /\ pc' = [pc EXCEPT ![h] = "crashed"]
  /\ UNCHANGED << active, encoderFails, deliveries, data, err, idx, rt,
                  tables, assoc, calls, vres, prev >>

\* Event.Error as eventHandler calls it: the message is recorded, the
\* Event serialized and published; log.Panic when it does not serialize.
Error(h) ==
  /\ Running(h) /\ pc[h] = "Error"
  /\ n' = [n EXCEPT ![h].ErrorMessage = err[h]]
  /\ \E ok \in MarshalSucceeds :
       IF ok
         THEN /\ pubs' = [pubs EXCEPT ![h] =
                   Append(@, Publish(ErrorSubject, Marshal(n'[h])))]
              /\ pc' = [pc EXCEPT ![h] = "idle"]
         ELSE /\ pubs' = pubs
              /\ pc' = [pc EXCEPT ![h] = "crashed"]
  /\ UNCHANGED << active, encoderFails, deliveries, data, err, idx, rt,
                  tables, assoc, calls, vres, prev >>

\* Event.Complete: the Event serialized and published as done. When it
\* does not serialize, ev.Error(err) is called, and Complete then goes on
\* to publish the nil data as done.
Complete(h) ==
  /\ Running(h) /\ pc[h] = "Complete"
  /\ \E ok \in MarshalSucceeds :
       IF ok
         THEN /\ pubs' = [pubs EXCEPT ![h] =
                   Append(@, Publish(DoneSubject, Marshal(n[h])))]
              /\ pc' = [pc EXCEPT ![h] = "idle"]
              /\ n' = n
         ELSE /\ n' = [n EXCEPT ![h].ErrorMessage = MarshalError]
              /\ \E ok2 \in MarshalSucceeds :
                   IF ok2
                     THEN /\ pubs' = [pubs EXCEPT ![h] =
                               @ \o << Publish(ErrorSubject, Marshal(n'[h])),
                                       Publish(DoneSubject, EmptyPayload) >>]
                          /\ pc' = [pc EXCEPT ![h] = "idle"]
                     ELSE /\ pubs' = pubs
                          /\ pc' = [pc EXCEPT ![h] = "crashed"]
  /\ UNCHANGED << active, encoderFails, deliveries, data, err, idx, rt,
                  tables, assoc, calls, vres, prev >>

\* --------------------------------------------------------- specifications

Next ==
  \E h \in Handlers :
    \/ Deliver(h)
    \/ Redeliver(h)
    \/ Process(h)
    \/ HandlerValidate(h)
    \/ DescribeRouteTables(h)
    \/ CreateRouteTable(h)
    \/ AssociateRouteTable(h)
    \/ CreateRoute(h)
    \/ Error(h)
    \/ Complete(h)

Spec == Init /\ [][Next]_vars

SpecEncoderFails == InitEncoderFails /\ [][Next]_vars

SpecConcurrent == InitConcurrent /\ [][Next]_vars

\* ----------------------------------------------------- shared vocabulary

\* A handler run has ended: eventHandler returned, or the process died.
Returned(h) == h \in active /\ deliveries[h] > 0 /\ pc[h] = "idle"
Ended(h) == h \in active /\ deliveries[h] > 0 /\ pc[h] \in {"idle", "crashed"}

Subjects(h) == [i \in 1..Len(pubs[h]) |-> pubs[h][i].subject]

MutatingOps == {"CreateRouteTable", "AssociateRouteTable", "CreateRoute"}

\* The operations of the calls of log q made for list position p, in order.
RECURSIVE VisitOps(_, _)
VisitOps(q, p) ==
  IF q = <<>> THEN <<>>
  ELSE IF Head(q).pos = p THEN <<Head(q).op>> \o VisitOps(Tail(q), p)
  ELSE VisitOps(Tail(q), p)

\* Some call of log q failed.
SomeCallFailed(q) == \E i \in 1..Len(q) : q[i].err # NoError

\* A route list holds the default route to gateway gw.
HasTargetRoute(routes, gw) ==
  \E k \in 1..Len(routes) :
    /\ routes[k].DestinationCidrBlock = DefaultCidr
    /\ routes[k].NatGatewayId = gw

\* Deserialization, validation and reconciliation of the run all succeeded.
RunSucceeded(h) ==
  /\ Unmarshal(data[h], ZeroEvent).err = NoError
  /\ vres[h] = NoError
  /\ ~SomeCallFailed(calls[h])
  /\ pc[h] # "crashed"

\* ------------------------------------------------------------------- C1

\* C1: every handler run ends having published exactly one message: on
\* the done subject iff deserialization, validation and reconciliation
\* all succeeded, otherwise on the error subject.
C1_ExactlyOneTerminalMessage ==
  \A h \in Handlers :
    Ended(h) =>
      /\ Len(pubs[h]) = 1
      /\ pubs[h][1].subject = (IF RunSucceeded(h) THEN DoneSubject
                               ELSE ErrorSubject)

\* ------------------------------------------------------------------- C2

\* C2: a subnet whose lookup returned a route table holding the default
\* route to the Event's NAT gateway gets no other provider call in that
\* visit: the lookup is the only call made for its list position.
C2_Idempotent ==
  \A h \in Handlers :
    \A i \in 1..Len(calls[h]) :
      LET c == calls[h][i] IN
        ( /\ c.op = "DescribeRouteTables" /\ c.err = NoError /\ c.table # 0
          /\ HasTargetRoute(c.routes, n[h].NatGatewayAWSID) )
        => VisitOps(calls[h], c.pos) = <<"DescribeRouteTables">>

\* A run over two subnets has returned, the first of them found
\* configured, the second not.
C2_Witness ==
  \E h \in Handlers :
    /\ Returned(h)
    /\ Len(calls[h]) > 1
    /\ calls[h][1].table # 0
    /\ HasTargetRoute(calls[h][1].routes, n[h].NatGatewayAWSID)
    /\ calls[h][2].pos = 2

\* ------------------------------------------------------------------- C3

FullVisit ==
  << "DescribeRouteTables", "CreateRouteTable", "AssociateRouteTable",
     "CreateRoute" >>

IsPrefix(a, b) == Len(a) <= Len(b) /\ a = SubSeq(b, 1, Len(a))

\* The visit of list position p in log q started with a lookup that found
\* no table, and no call of the visit failed.
FreshVisit(q, p) ==
  \E i \in 1..Len(q) :
    /\ q[i].pos = p /\ q[i].op = "DescribeRouteTables"
    /\ q[i].table = 0
    /\ \A j \in 1..Len(q) : q[j].pos = p => q[j].err = NoError

\* C3: for a subnet found without a route table, with every call
\* succeeding, the calls made are create-route-table, associate,
\* create-route in that order (all three once the visit is over); and the
\* next run of the same Event makes none of the three for that subnet.
C3_Convergence ==
  \A h \in Handlers :
    /\ \A p \in 1..Len(n[h].RoutedNetworkAWSIDs.elems) :
         FreshVisit(calls[h], p) =>
           /\ IsPrefix(VisitOps(calls[h], p), FullVisit)
           /\ (idx[h] > p => VisitOps(calls[h], p) = FullVisit)
           /\ (idx[h] = p => pc[h] \in MutatingOps)
    /\ \A p \in 1..Len(n[h].RoutedNetworkAWSIDs.elems) :
         ( /\ deliveries[h] > 1
           /\ FreshVisit(prev[h], p)
           /\ VisitOps(prev[h], p) = FullVisit )
         => \A j \in 1..Len(calls[h]) :
              calls[h][j].subnet = n[h].RoutedNetworkAWSIDs.elems[p]
                => calls[h][j].op \notin MutatingOps

\* The second run has looked the subnet up again after a first run that
\* created, associated and routed its table.
C3_Witness ==
  \E h \in Handlers :
    /\ deliveries[h] > 1
    /\ FreshVisit(prev[h], 1)
    /\ VisitOps(prev[h], 1) = FullVisit
    /\ Returned(h)
    /\ VisitOps(calls[h], 1) = <<"DescribeRouteTables">>

\* ------------------------------------------------------------------- C4

\* C4: a failed provider call is the last call of its run, the error under
\* report is that call's error, and the run is on its way out.
C4_FailFast ==
  \A h \in Handlers :
    \A i \in 1..Len(calls[h]) :
      calls[h][i].err # NoError =>
        /\ i = Len(calls[h])
        /\ err[h] = calls[h][i].err
        /\ pc[h] \in {"Error", "idle", "crashed"}
        /\ (pc[h] = "idle" =>
              /\ n[h].ErrorMessage = calls[h][i].err
              /\ Subjects(h) = <<ErrorSubject>>)

\* A call for the first of two subnets failed and the run has returned.
C4_Witness ==
  \E h \in Handlers :
    /\ Returned(h)
    /\ Len(n[h].RoutedNetworkAWSIDs.elems) = 2
    /\ calls[h] # <<>>
    /\ calls[h][Len(calls[h])].err # NoError
    /\ calls[h][Len(calls[h])].pos = 1

\* ------------------------------------------------------------------- C5

\* C5: Validate returns the error of the first violated check in the order
\* VPC ID, region, credentials, public network id, routed networks,
\* whatever the later fields hold, and nil exactly when none is violated.
C5_ValidateOrder ==
  \A h \in Handlers :
    vres[h] # NotCalled =>
      LET e == n[h]
          vpc == e.VPCID # ""
          region == e.DatacenterRegion # ""
          creds == e.DatacenterAccessKey # "" /\ e.DatacenterAccessToken # ""
          net == e.PublicNetworkAWSID # ""
          routed == Len(e.RoutedNetworkAWSIDs.elems) >= 1
      IN /\ ~vpc => vres[h] = "Datacenter VPC ID invalid"
         /\ (vpc /\ ~region) => vres[h] = "Datacenter Region invalid"
         /\ (vpc /\ region /\ ~creds) =>
               vres[h] = "Datacenter credentials invalid"
         /\ (vpc /\ region /\ creds /\ ~net) => vres[h] = "Network id invalid"
         /\ (vpc /\ region /\ creds /\ net /\ ~routed) =>
               vres[h] = "Routed networks are empty"
         /\ (vres[h] = NoError) <=> (vpc /\ region /\ creds /\ net /\ routed)

\* Validate has answered for an Event that fails the region check and
\* three of the checks after it.
C5_Witness ==
  \E h \in Handlers :
    /\ vres[h] = ErrDatacenterRegionInvalid
    /\ n[h].DatacenterAccessToken = ""
    /\ n[h].PublicNetworkAWSID = ""
    /\ n[h].RoutedNetworkAWSIDs.elems = <<>>

\* ------------------------------------------------------------------- C6

\* The bytes cannot be deserialized into an Event.
Undeserializable(d) == Unmarshal(d, ZeroEvent).err # NoError

\* The string the payload's own `error` member holds, "" when the payload
\* is no object or has no such string member.
RECURSIVE OwnErrorFrom(_, _, _)
OwnErrorFrom(ms, i, sofar) ==
  IF i > Len(ms) THEN sofar
  ELSE IF ms[i].k = "error" /\ ms[i].v.t = "str"
    THEN OwnErrorFrom(ms, i + 1, DecodeString(ms[i].v.s))
  ELSE OwnErrorFrom(ms, i + 1, sofar)

OwnError(d) == OwnErrorFrom(d.members, 1, "")

\* What a run on undeserializable bytes leaves besides the ErrorMessage
\* field: the handler has returned, the bytes went out unchanged as the
\* one message, on the error subject, no validation, no provider call.
RawEcho(h) ==
  /\ pc[h] = "idle"
  /\ pubs[h] = << Publish(ErrorSubject, data[h]) >>
  /\ vres[h] = NotCalled
  /\ calls[h] = <<>>
  /\ err[h] = NoError

\* C6 as stated: after Process on undeserializable bytes the raw bytes are
\* the one message published, on the error subject, ErrorMessage is unset,
\* and the handler has returned without validation or provider call.
C6_RawEchoErrorMessageUnset ==
  \A h \in Handlers :
    (h \in active /\ deliveries[h] > 0 /\ pc[h] # "Process"
       /\ Undeserializable(data[h]))
      => RawEcho(h) /\ n[h].ErrorMessage = ""

\* C6 amended: the same, with ErrorMessage never holding the
\* deserialization error: it holds what the payload's own `error` member
\* decoded to, and is unset when the payload has none.
C6_RawEcho ==
  \A h \in Handlers :
    (h \in active /\ deliveries[h] > 0 /\ pc[h] # "Process"
       /\ Undeserializable(data[h]))
      => /\ RawEcho(h)
         /\ n[h].ErrorMessage = OwnError(data[h])
         /\ n[h].ErrorMessage # Unmarshal(data[h], ZeroEvent).err

\* A run on text that is not JSON has returned, and so has one on an
\* object with a wrongly typed member.
C6_Witness ==
  \E h \in Handlers :
    /\ Returned(h) /\ data[h] = InvalidDoc
    /\ pubs[h] = << Publish(ErrorSubject, InvalidDoc) >>

C6_WitnessTyped ==
  \E h \in Handlers :
    /\ Returned(h) /\ data[h].kind = "object" /\ Undeserializable(data[h])

\* ------------------------------------------------------------------- C7

\* Complete has run: a message went out on the done subject.
Completed(h) ==
  Returned(h) /\ \E i \in 1..Len(pubs[h]) : pubs[h][i].subject = DoneSubject

\* No string of the Event holds ill-formed UTF-8.
WellFormed(e) ==
  /\ \A f \in DOMAIN e : f \notin SliceFields => e[f] # BadUtf8
  /\ \A f \in SliceFields :
       \A i \in 1..Len(e[f].elems) : e[f].elems[i] # BadUtf8

\* C7 as stated: for every valid Event E, Process(serialize(E)) and then
\* Complete publish serialize(E) itself on the done subject, the Event
\* held being E, and nothing on the error subject.
C7_RoundTripEveryEvent ==
  \A h \in Handlers :
    \A e \in ValidEvents :
      (Completed(h) /\ data[h] = Marshal(e))
        => /\ pubs[h] = << Publish(DoneSubject, data[h]) >>
           /\ n[h] = e

\* C7 amended: the same for every valid Event whose strings are
\* well-formed UTF-8.
C7_RoundTrip ==
  \A h \in Handlers :
    \A e \in ValidEvents :
      (Completed(h) /\ data[h] = Marshal(e) /\ WellFormed(e))
        => /\ pubs[h] = << Publish(DoneSubject, data[h]) >>
           /\ n[h] = e

\* Complete has run on the serialized test Event.
C7_Witness ==
  \E h \in Handlers :
    /\ Completed(h)
    /\ data[h] = Marshal(BaseEvent)
    /\ n[h].RoutedNetworks.isNil

\* ------------------------------------------------------------------- C8

\* The member of key k in an object's member list, and how many there are.
MembersOf(d, k) == {i \in 1..Len(d.members) : d.members[i].k = k}

InProvider(h) ==
  \/ calls[h] # <<>>
  \/ pc[h] \in {"DescribeRouteTables", "CreateRouteTable",
                "AssociateRouteTable", "CreateRoute"}

\* C10 as stated: no provider call unless request UUID, batch UUID, VPC
\* ID, region, access key, access token and NAT gateway id are non-empty
\* and the routed list has an element.
C10_AllIdentityFieldsSet ==
  \A h \in Handlers :
    InProvider(h) =>
      /\ n[h].UUID # "" /\ n[h].BatchID # ""
      /\ n[h].VPCID # "" /\ n[h].DatacenterRegion # ""
      /\ n[h].DatacenterAccessKey # "" /\ n[h].DatacenterAccessToken # ""
      /\ n[h].NatGatewayAWSID # ""
      /\ Len(n[h].RoutedNetworkAWSIDs.elems) >= 1

\* C10 amended: no provider call unless VPC ID, region, access key, access
\* token and public network id are non-empty and the routed list has an
\* element.
C10_ValidatedFieldsSet ==
  \A h \in Handlers :
    InProvider(h) =>
      /\ n[h].VPCID # "" /\ n[h].DatacenterRegion # ""
      /\ n[h].DatacenterAccessKey # "" /\ n[h].DatacenterAccessToken # ""
      /\ n[h].PublicNetworkAWSID # ""
      /\ Len(n[h].RoutedNetworkAWSIDs.elems) >= 1

\* A provider call was made for an Event without a NAT gateway id.
C10_Witness ==
  \E h \in Handlers :
    /\ calls[h] # <<>>
    /\ n[h].NatGatewayAWSID = ""

\* ------------------------------------------------------------------ C11

\* The messages of the current run published on the done subject.
DonePayloads(h) ==
  {pubs[h][i].data : i \in {j \in 1..Len(pubs[h]) :
                              pubs[h][j].subject = DoneSubject}}

\* C11 as stated: no message on the done subject has an `error` member,
\* and ErrorMessage is empty unless Error has run.
C11_ErrorOnlyInFailureReports ==
  \A h \in Handlers :
    /\ \A d \in DonePayloads(h) : MembersOf(d, "error") = {}
    /\ n[h].ErrorMessage # "" =>
         (Ended(h) /\ err[h] # NoError /\ n[h].ErrorMessage = err[h])

\* C11 amended: a message on the done subject has an `error` member
\* exactly when the inbound payload had a non-empty string one, with that
\* value; and once Process has loaded the Event, ErrorMessage differs from
\* what the inbound payload carried only when Error has run.
C11_ErrorOnlyFromInboundOrError ==
  \A h \in Handlers :
    /\ \A d \in DonePayloads(h) :
         IF OwnError(data[h]) = ""
           THEN MembersOf(d, "error") = {}
           ELSE \E i \in MembersOf(d, "error") :
                  /\ MembersOf(d, "error") = {i}
                  /\ d.members[i].v = JStr(EncodeString(OwnError(data[h])))
    /\ (h \in active /\ deliveries[h] > 0 /\ pc[h] # "Process"
          /\ n[h].ErrorMessage # OwnError(data[h]))
         => (Ended(h) /\ err[h] # NoError /\ n[h].ErrorMessage = err[h])

\* A done report went out for a request that came with an `error` member,
\* and one for a request without.
C11_Witness ==
  \E h \in Handlers :
    /\ Completed(h)
    /\ OwnError(data[h]) = "stale"

\* ------------------------------------------------------------------ C12

\* C12: the step that runs Validate publishes nothing, changes no field of
\* the Event and touches nothing of the provider, whatever it returns; the
\* step that runs Process on bytes that deserialize publishes nothing,
\* loads the Event and goes on to validation.
C12_NoSideEffects ==
  [][ \A h \in Handlers :
        /\ (pc[h] = "Validate" /\ pc'[h] # "Validate") =>
             /\ pubs'[h] = pubs[h]
             /\ n'[h] = n[h]
             /\ calls' = calls /\ tables' = tables /\ assoc' = assoc
             /\ vres'[h] # NotCalled
        /\ (pc[h] = "Process" /\ pc'[h] # "Process"
              /\ ~Undeserializable(data[h])) =>
             /\ pubs'[h] = pubs[h]
             /\ pc'[h] = "Validate"
             /\ n'[h] = Unmarshal(data[h], ZeroEvent).ev
             /\ calls' = calls /\ tables' = tables /\ assoc' = assoc
    ]_vars

\* Validate has returned an error and nothing is published yet.
C12_Witness ==
  \E h \in Handlers :
    /\ pc[h] = "Error"
    /\ vres[h] = ErrNetworkIDInvalid
    /\ pubs[h] = <<>>
    /\ n[h].ErrorMessage = ""

\* ------------------------------------------------------------------ C14

\* C14: after Process of a valid serialized Event and Error(err), the one
\* message published is on the error subject and has the member
\* "error_message" with value err.Error().
C14_ErrorMessageMember ==
  \A h \in Handlers :
    (Returned(h) /\ vres[h] = NoError /\ err[h] # NoError) =>
      /\ Subjects(h) = <<ErrorSubject>>
      /\ \E i \in MembersOf(pubs[h][1].data, "error_message") :
           pubs[h][1].data.members[i].v = JStr(err[h])

\* ------------------------------------------------------------------ C15

routedList(h) == n[h].RoutedNetworkAWSIDs.elems

\* updateNat of the current run has returned nil.
UpdateNatSucceeded(h) ==
  h \in active /\ deliveries[h] > 0 /\ (pc[h] = "Complete" \/ Completed(h))

\* C15: when updateNat has returned nil, every subnet of the routed list
\* has a route table associated that holds the default route to the
\* Event's NAT gateway, and every position of the list was visited with
\* no call failing.
C15_SuccessPostcondition ==
  \A h \in Handlers :
    UpdateNatSucceeded(h) =>
      /\ ~SomeCallFailed(calls[h])
      /\ \A p \in 1..Len(routedList(h)) :
           LET s == routedList(h)[p] IN
             /\ VisitOps(calls[h], p) # <<>>
             /\ assoc[s] # 0
             /\ HasTargetRoute(tables[assoc[s]].Routes,
                               n[h].NatGatewayAWSID)

\* updateNat returned nil for two subnets, having created a route for the
\* second.
C15_Witness ==
  \E h \in Handlers :
    /\ Completed(h)
    /\ Len(routedList(h)) = 2
    /\ \E i \in 1..Len(calls[h]) :
         calls[h][i].op = "CreateRoute" /\ calls[h][i].pos = 2

\* ------------------------------------------------------------------ C16

\* The call sequences of a visit that is over without a failure.
CompleteVisits ==
  { <<"DescribeRouteTables">>,
    <<"DescribeRouteTables", "CreateRoute">>,
    <<"DescribeRouteTables", "CreateRouteTable", "AssociateRouteTable">>,
    FullVisit }

\* C16: the calls of a run are made for list positions 1, 2, ... in that
\* order, each for the subnet at its position, a position is left only
\* after its last call succeeded and is never come back to, and the calls
\* of one position are lookup, [create-route-table, associate],
\* [create-route] in that order.
C16_InListOrder ==
  \A h \in Handlers :
    LET q == calls[h] IN
      /\ q # <<>> => q[1].pos = 1
      /\ \A i \in 1..Len(q) :
           /\ q[i].pos \in 1..Len(routedList(h))
           /\ q[i].subnet = routedList(h)[q[i].pos]
           /\ \E v \in CompleteVisits : IsPrefix(VisitOps(q, q[i].pos), v)
      /\ \A i \in 1..(Len(q) - 1) :
           \/ q[i + 1].pos = q[i].pos
           \/ /\ q[i + 1].pos = q[i].pos + 1
              /\ q[i].err = NoError
              /\ VisitOps(SubSeq(q, 1, i), q[i].pos) \in CompleteVisits

\* A run over two subnets: the first got all four calls, the second the
\* lookup and the route.
C16_Witness ==
  \E h \in Handlers :
    /\ Returned(h)
    /\ VisitOps(calls[h], 1) = FullVisit
    /\ VisitOps(calls[h], 2) = <<"DescribeRouteTables", "CreateRoute">>

\* ------------------------------------------------------------------ C17

\* The last call of the current run is an association that failed.
AssociateFailed(h) ==
  /\ calls[h] # <<>>
  /\ calls[h][Len(calls[h])].op = "AssociateRouteTable"
  /\ calls[h][Len(calls[h])].err # NoError

\* After create-route-table succeeded and associate failed: the run is on
\* its way out with the associate error, and the created table is in the
\* provider state, associated with no subnet.
OrphanLeft(h) ==
  LET k == Len(calls[h])
      t == calls[h][k].table
  IN /\ k >= 3
     /\ calls[h][k - 1].op = "CreateRouteTable"
     /\ calls[h][k - 1].err = NoError
     /\ calls[h][k - 1].table = t
     /\ calls[h][k - 2].op = "DescribeRouteTables"
     /\ calls[h][k - 2].table = 0
     /\ err[h] = calls[h][k].err
     /\ pc[h] \in {"Error", "idle"}
     /\ t \in 1..Len(tables)
     /\ \A s \in DOMAIN assoc : assoc[s] # t

\* No step takes a route table, a route or an association away.
NothingUndone ==
  /\ Len(tables') >= Len(tables)
  /\ \A t \in 1..Len(tables) :
       /\ tables'[t].VpcId = tables[t].VpcId
       /\ IsPrefix(tables[t].Routes, tables'[t].Routes)
  /\ \A s \in DOMAIN assoc : assoc[s] # 0 => assoc'[s] # 0

\* C17: a failed associate after a successful create-route-table ends the
\* run with the associate error and leaves the new table in place,
\* associated with no subnet; and no step of any run undoes a mutation.
C17_NoRollback ==
  /\ [](\A h \in Handlers : AssociateFailed(h) => OrphanLeft(h))
  /\ [][NothingUndone]_vars

\* The handler has returned after a failed associate.
C17_Witness ==
  \E h \in Handlers :
    /\ Returned(h)
    /\ AssociateFailed(h)
    /\ Subjects(h) = <<ErrorSubject>>

\* ------------------------------------------------------------------ C18

\* The lookup recorded as call i of the run returned a table and the check
\* on it said `not configured`: the handler went on to create-route.
SaidNotConfigured(h, i) ==
  \/ i < Len(calls[h]) /\ calls[h][i + 1].op = "CreateRoute"
                       /\ calls[h][i + 1].pos = calls[h][i].pos
  \/ i = Len(calls[h]) /\ pc[h] = "CreateRoute"

\* C18: whatever routes a looked-up table holds, the idempotence check
\* completes without crashing, and says `configured` exactly when some
\* route is 0.0.0.0/0 to the Event's NAT gateway.
C18_CheckCompletes ==
  \A h \in Handlers :
    /\ pc[h] # "crashed"
    /\ \A i \in 1..Len(calls[h]) :
         ( /\ calls[h][i].op = "DescribeRouteTables"
           /\ calls[h][i].err = NoError /\ calls[h][i].table # 0 )
         => ( SaidNotConfigured(h, i) <=>
                ~HasTargetRoute(calls[h][i].routes, n[h].NatGatewayAWSID) )

\* ------------------------------------------------------------------ C20

\* What must have happened before a provider call, and before a done
\* report.
Gated(h) ==
  /\ InProvider(h) => (~Undeserializable(data[h]) /\ vres[h] = NoError)
  /\ DonePayloads(h) # {} =>
       /\ ~Undeserializable(data[h]) /\ vres[h] = NoError
       /\ ~SomeCallFailed(calls[h])
       /\ \A p \in 1..Len(routedList(h)) :
            VisitOps(calls[h], p) \in CompleteVisits

\* A step of a run that has published: no provider call, no change of the
\* Event, no further message.
Frozen(h) ==
  (pubs[h] # <<>> /\ deliveries'[h] = deliveries[h]) =>
    /\ calls'[h] = calls[h]
    /\ n'[h] = n[h]
    /\ pubs'[h] = pubs[h]
    /\ pc'[h] = pc[h]

\* C20: provider calls only after Process and Validate returned nil, a
\* done report only after updateNat returned nil, and after a terminal
\* message no provider call and no change of the Event.
C20_Gating ==
  /\ [](\A h \in Handlers : Gated(h))
  /\ [][\A h \in Handlers : Frozen(h)]_vars

\* A done report is out after provider calls were made.
C20_Witness ==
  \E h \in Handlers :
    /\ Completed(h)
    /\ Len(calls[h]) > 2
    /\ deliveries[h] = MaxDeliveries

\* ------------------------------------------------------------------ C13

listSet(h) == { routedList(h)[i] : i \in 1..Len(routedList(h)) }

\* Two invocations side by side, each with subnets to route, none in
\* common.
DisjointInvocations ==
  /\ active = Handlers
  /\ \A h \in Handlers : deliveries[h] > 0 /\ routedList(h) # <<>>
  /\ \A h, g \in Handlers : h # g => listSet(h) \cap listSet(g) = {}

\* The route tables associated with the subnets of an invocation.
TablesOf(h) == { assoc[s] : s \in listSet(h) } \ {0}

\* No route table is associated with subnets of both invocations.
OwnTables ==
  \A h, g \in Handlers : h # g => TablesOf(h) \cap TablesOf(g) = {}

\* What a lookup for subnet s returns: the routes of its table, none when
\* it has no table.
View(s) == IF assoc[s] = 0 THEN <<>> ELSE tables[assoc[s]].Routes

CallsAndPrev == {calls[h] : h \in Handlers} \cup {prev[h] : h \in Handlers}

\* The route tables the invocations associated with subnet s.
AssociatedWith(s) ==
  UNION { { q[i].table : i \in { j \in 1..Len(q) :
                                   /\ q[j].op = "AssociateRouteTable"
                                   /\ q[j].err = NoError
                                   /\ q[j].subnet = s } }
          : q \in CallsAndPrev }

\* A create-route of h was refused for a route that was not there when h
\* looked the table up.
Interfered(h) ==
  \E i, j \in 1..Len(calls[h]) :
    /\ j < i
    /\ calls[h][j].op = "DescribeRouteTables"
    /\ calls[h][j].pos = calls[h][i].pos
    /\ ~HasDestination(calls[h][j].routes, DefaultCidr)
    /\ calls[h][i].err = ErrRouteAlreadyExists

\* What running one after the other gives: per subnet at most one table
\* created and associated, no call refused over the other's doing, and a
\* done report only with the routes in place.
AsOneAfterTheOther ==
  /\ \A s \in Subnets : Cardinality(AssociatedWith(s)) <= 1
  /\ \A h \in Handlers : ~Interfered(h)
  /\ \A h \in Handlers :
       Completed(h) =>
         \A s \in listSet(h) : HasTargetRoute(View(s), n[h].NatGatewayAWSID)

\* A step of the other invocation leaves what h's lookups return as it
\* was, so h issues the calls it issues alone.
Undisturbed(h) ==
  pc'[h] = pc[h] => \A s \in listSet(h) : View(s)' = View(s)

\* C13: two concurrent invocations with disjoint routed lists are safe
\* under every interleaving: each issues the calls it issues alone, at most
\* one route table is created and associated per subnet, and provider state
\* and terminal messages are those of running one after the other.
C13_DisjointListsSafe ==
  /\ [](DisjointInvocations => AsOneAfterTheOther)
  /\ [][DisjointInvocations => \A h \in Handlers : Undisturbed(h)]_vars

\* C13, for subnets that share no route table: as above.
C13_OwnTablesSafe ==
  /\ []((DisjointInvocations /\ OwnTables) => AsOneAfterTheOther)
  /\ [][(DisjointInvocations /\ OwnTables) =>
          \A h \in Handlers : Undisturbed(h)]_vars

\* Both invocations are in the middle of their provider calls, one about
\* to associate the table it created, the other about to create its route.
C13_Witness ==
  /\ DisjointInvocations /\ OwnTables
  /\ pc["h1"] = "AssociateRouteTable"
  /\ pc["h2"] = "CreateRoute"
  /\ calls["h2"] # <<>>

\* ------------------------------------------------------------------ C19

\* Both invocations stand between create-route-table and associate for
\* the same subnet.
BothCreated(h, g) ==
  /\ h # g
  /\ pc[h] = "AssociateRouteTable" /\ pc[g] = "AssociateRouteTable"
  /\ networkID(h) = networkID(g)

\* Both invocations associated a table with subnet s in their current
\* runs.
BothAssociated(h, g, s) ==
  /\ h # g
  /\ \E i \in 1..Len(calls[h]) :
       /\ calls[h][i].op = "AssociateRouteTable"
       /\ calls[h][i].err = NoError /\ calls[h][i].subnet = s
  /\ \E i \in 1..Len(calls[g]) :
       /\ calls[g][i].op = "AssociateRouteTable"
       /\ calls[g][i].err = NoError /\ calls[g][i].subnet = s

\* C19: nothing stands between the lookup and create-route-table: when two
\* concurrent invocations for one subnet both got `absent`, each creates a
\* route table of its own, so the subnet gets two; once both associated,
\* the subnet has one of the two and the other is left with no subnet.
C19_SameSubnetRace ==
  \A h, g \in Handlers :
    /\ BothCreated(h, g) =>
         /\ rt[h].id # rt[g].id
         /\ {rt[h].id, rt[g].id} \subseteq 1..Len(tables)
         /\ assoc[networkID(h)] \notin {rt[h].id, rt[g].id}
    /\ \A s \in Subnets :
         BothAssociated(h, g, s) =>
           /\ Cardinality(AssociatedWith(s)) >= 2
           /\ assoc[s] \in AssociatedWith(s)
           /\ \E t \in AssociatedWith(s) :
                \A s2 \in Subnets : assoc[s2] # t

\* Both lookups returned absent and both invocations created a route
\* table for the one subnet.
C19_Witness ==
  /\ BothCreated("h1", "h2")
  /\ \A h \in Handlers :
       /\ calls[h][1].op = "DescribeRouteTables" /\ calls[h][1].table = 0
       /\ calls[h][2].op = "CreateRouteTable" /\ calls[h][2].err = NoError
  /\ calls["h1"][2].table # calls["h2"][2].table

====
